---------------------------- MODULE Spec2Model ----------------------------
(***************************************************************************)
(* Model of backend/ai_generator.py: AIGenerator.generate_response and     *)
(* AIGenerator._handle_tool_execution, the bounded tool-calling loop that  *)
(* sits between the Anthropic messages API and the tool manager.           *)
(*                                                                         *)
(* The messages API and the tool manager are the environment.  A model     *)
(* response is a stop_reason and an ordered list of content blocks; every  *)
(* text, call id and argument mapping the environment produces is a fresh  *)
(* label (the code never compares them), so any mix-up between two of them *)
(* is visible.  A model call or a tool dispatch may also raise.            *)
(*                                                                         *)
(* Spec runs one generate_response against a stand-in tool manager.        *)
(* RagSpec puts the tool manager and its two tools behind execute_tool and *)
(* lets the caller read and reset the citations afterwards; ManagerSpec    *)
(* calls the tool manager directly, as tests/test_search_tools.py does;    *)
(* ConcurrentSpec interleaves two queries that share one tool manager and   *)
(* SeriesSpec runs them one after the other; RepeatSpec calls              *)
(* generate_response twice on one generator and DeterminismSpec compares   *)
(* the second call with the first; TerminationSpec is Spec with every      *)
(* model call and every dispatch coming to an end; RegistrySpec registers  *)
(* tools again under a name that is taken and lets two tools hold          *)
(* citations.                                                              *)
(***************************************************************************)
EXTENDS Naturals, Sequences, FiniteSets

----------------------------------------------------------------------------
(* Bounds of the model *)

\* largest configured value of config.MAX_TOOL_ROUNDS that is explored
MaxRounds == 2

\* largest number of content blocks in one model response
MaxBlocks == 2

----------------------------------------------------------------------------
(* Values *)

None == "None"

\* a field a block does not have (a text block has no id, a tool_use block no text)
NoAttr == <<>>

\* an Optional[List] argument that is None
NoneList == <<None>>

\* a key that is not in a parameter dict
Absent == <<"absent">>

\* self.base_params, built once in __init__
base_params == [model |-> "model", temperature |-> 0, max_tokens |-> 800]

SYSTEM_PROMPT == "SYSTEM_PROMPT"

\* the `tools` argument: None, an empty list, or a list of definitions
ToolsArgs == {NoneList, <<>>, <<"search_course_content", "get_course_outline">>}

Queries == {"query"}

\* the `conversation_history` argument: None, the empty string, or the
\* formatted earlier turns
Histories == {None, "", "User: hi"}

StopReasons == {"tool_use", "end_turn"}

\* the content block at position i of the response to model call k
TextBlock(k, i) ==
    [type |-> "text", text |-> <<"text", k, i>>, id |-> NoAttr,
     name |-> None, input |-> NoAttr]

ToolUseBlock(k, i, n) ==
    [type |-> "tool_use", text |-> NoAttr, id |-> <<"id", k, i>>,
     name |-> n, input |-> <<"input", k, i>>]

\* what one block of a response is
Kinds == {"text", "tool_use"}

\* the tool the block at position i of response k asks for: the loop passes the
\* name on without looking at it, so the names only have to differ between
\* neighbouring requests
NameAt(k, i) ==
    IF (k + i) % 2 = 0 THEN "search_course_content" ELSE "get_course_outline"

\* every list of at most MaxBlocks kinds
Shapes == UNION {[1..n -> Kinds] : n \in 0..MaxBlocks}

BlockOf(k, i, kind) ==
    IF kind = "text" THEN TextBlock(k, i) ELSE ToolUseBlock(k, i, NameAt(k, i))

\* the response to model call k with the given stop reason and block kinds
Response(k, s, shape) ==
    [stop_reason |-> s, content |-> [i \in 1..Len(shape) |-> BlockOf(k, i, shape[i])]]

NoResponse == [stop_reason |-> None, content |-> <<>>]

\* the string the n-th execute_tool call of the invocation returns
ToolOutput(n) == <<"output", n>>

----------------------------------------------------------------------------
(* The decisions and constructions of the code *)

\* mutant: `if tools is not None:` -- an empty list counts as tools
ToolsGivenUnlessNone(t) == t # NoneList

\* `if tools:` -- None and the empty list are both falsy
ToolsGiven(t) == t # NoneList /\ t # <<>>

\* `if conversation_history` -- None and the empty string are both falsy
HistoryGiven(h) == h # None /\ h # ""

\* system_content of generate_response
SystemContent(h) ==
    IF HistoryGiven(h) THEN <<SYSTEM_PROMPT, "Previous conversation:", h>>
                       ELSE <<SYSTEM_PROMPT>>

UserQueryTurn(q) == [role |-> "user", content |-> <<q>>]

\* api_params of generate_response: base_params, the one-turn transcript, the
\* system text, and tools / tool_choice only when tools were given
InitialParams(q, h, t) ==
    [model |-> base_params.model, temperature |-> base_params.temperature,
     max_tokens |-> base_params.max_tokens,
     messages |-> <<UserQueryTurn(q)>>,
     system |-> SystemContent(h),
     tools |-> IF ToolsGiven(t) THEN t ELSE Absent,
     tool_choice |-> IF ToolsGiven(t) THEN "auto" ELSE None]

\* `response.stop_reason == "tool_use" and tool_manager`
NeedsToolExecution(resp, mgr) == resp.stop_reason = "tool_use" /\ mgr

\* mutant: the loop bound is off by one
LoopContinuesOffByOne(round, max) == round <= max

\* `while tool_round < MAX_TOOL_ROUNDS`
LoopContinues(round, max) == round < max

\* `if current_response.stop_reason != "tool_use": return ...`
IsFinal(resp) == resp.stop_reason # "tool_use"

\* `if content_block.type == "tool_use"`
IsToolUse(b) == b.type = "tool_use"

\* mutant: the loop over the blocks stops after the first block
ForLoopDoneAfterFirst(i, resp) == i > Len(resp.content) \/ i > 1

\* the `for content_block in current_response.content` loop has run out of blocks
ForLoopDone(i, resp) == i > Len(resp.content)

\* `response.content[0].text`: an empty content list has no element 0, and a
\* tool_use block has no text attribute
FirstText(resp) ==
    IF Len(resp.content) = 0
    THEN [raised |-> TRUE, error |-> "IndexError", text |-> NoAttr]
    ELSE IF resp.content[1].type = "text"
         THEN [raised |-> FALSE, error |-> None, text |-> resp.content[1].text]
         ELSE [raised |-> TRUE, error |-> "AttributeError", text |-> NoAttr]

\* mutant: the tool-call turn is appended with the wrong role
AssistantTurnAsUser(resp) == [role |-> "user", content |-> resp.content]

AssistantTurn(resp) == [role |-> "assistant", content |-> resp.content]

\* mutant: only the text of a successful execution is passed on as it is
ToolResultOfSuccessOnly(b, out) ==
    [type |-> "tool_result", tool_use_id |-> b.id,
     content |-> IF out[1] \in {"output", "formatted", "Course:"} THEN out
                                                                 ELSE <<"error">>]

\* the entry appended to tool_results for one executed block
ToolResult(b, out) == [type |-> "tool_result", tool_use_id |-> b.id, content |-> out]

\* mutant: only the last result reaches the result turn
WithLastToolResultOnly(msgs, results) ==
    IF Len(results) > 0
    THEN Append(msgs, [role |-> "user", content |-> <<results[Len(results)]>>])
    ELSE msgs

\* `if tool_results: messages.append({"role": "user", "content": tool_results})`
WithToolResults(msgs, results) ==
    IF Len(results) > 0 THEN Append(msgs, [role |-> "user", content |-> results])
                        ELSE msgs

\* mutant: tools stay attached to every follow-up call
KeepToolsAlways(round, max) == round <= max

\* `if tool_round < MAX_TOOL_ROUNDS:` tools stay attached to the next call
KeepTools(round, max) == round < max

\* base_params.get("tools", [])
ToolsOrEmpty(params) == IF params.tools = Absent THEN <<>> ELSE params.tools

\* mutant: the follow-up calls carry the fixed instruction without the history
NextParamsWithoutHistory(msgs, params, round, max) ==
    [model |-> base_params.model, temperature |-> base_params.temperature,
     max_tokens |-> base_params.max_tokens,
     messages |-> msgs,
     system |-> <<SYSTEM_PROMPT>>,
     tools |-> IF KeepTools(round, max) THEN ToolsOrEmpty(params) ELSE Absent,
     tool_choice |-> IF KeepTools(round, max) THEN "auto" ELSE None]

\* next_params of _handle_tool_execution
NextParams(msgs, params, round, max) ==
    [model |-> base_params.model, temperature |-> base_params.temperature,
     max_tokens |-> base_params.max_tokens,
     messages |-> msgs,
     system |-> params.system,
     tools |-> IF KeepTools(round, max) THEN ToolsOrEmpty(params) ELSE Absent,
     tool_choice |-> IF KeepTools(round, max) THEN "auto" ELSE None]

----------------------------------------------------------------------------
(* The tool manager and its two tools (backend/search_tools.py), over the   *)
(* vector store (backend/vector_store.py)                                   *)

\* largest number of chunks one search of the vector store matches
MaxMatches == 2

CourseSearchTool == "search_course_content"

CourseOutlineTool == "get_course_outline"

\* the tools that keep a last_sources list
SourceTracking == {CourseSearchTool}

\* what store.search answers to the n-th lookup: k matched chunks, or an error
SearchResults(n, k) ==
    [documents |-> [j \in 1..k |-> <<"chunk", n, j>>], error |-> None]

SearchError ==
    [documents |-> <<>>, error |-> "Search error: Database connection failed"]

\* what store.get_course_outline answers to the n-th lookup: an outline, or None
CourseOutline(n) == <<"outline", n>>

\* the citation kept for one matched chunk
Source(doc) == [text |-> <<"header", doc>>, url |-> <<"link", doc>>]

SourcesOf(results) ==
    [j \in DOMAIN results.documents |-> Source(results.documents[j])]

\* mutant: a search that matches nothing leaves the citations as they were
SearchExecuteKeepingOnMiss(held, input, results) ==
    IF results.error # None
    THEN [out |-> <<results.error>>, last_sources |-> <<>>]
    ELSE IF Len(results.documents) = 0
         THEN [out |-> <<"No relevant content found.", input>>, last_sources |-> held]
         ELSE [out |-> <<"formatted", results.documents>>,
               last_sources |-> SourcesOf(results)]

\* mutant: the citations of an execution are added to those already held
SearchExecuteAppending(held, input, results) ==
    IF results.error # None
    THEN [out |-> <<results.error>>, last_sources |-> held]
    ELSE IF Len(results.documents) = 0
         THEN [out |-> <<"No relevant content found.", input>>, last_sources |-> held]
         ELSE [out |-> <<"formatted", results.documents>>,
               last_sources |-> held \o SourcesOf(results)]

\* CourseSearchTool.execute on a tool that holds `held`: the string returned
\* and the last_sources the tool holds afterwards
SearchExecute(held, input, results) ==
    IF results.error # None
    THEN [out |-> <<results.error>>, last_sources |-> <<>>]
    ELSE IF Len(results.documents) = 0
         THEN [out |-> <<"No relevant content found.", input>>, last_sources |-> <<>>]
         ELSE [out |-> <<"formatted", results.documents>>,
               last_sources |-> SourcesOf(results)]

\* CourseOutlineTool.execute: the string returned
OutlineExecute(input, outline) ==
    IF outline = NoneList THEN <<"No course found matching", input>>
                          ELSE <<"Course:", outline>>

\* `tool_name in self.tools`, the manager's tools being the names in
\* registration order
Registered(reg, name) == \E i \in DOMAIN reg : reg[i] = name

\* ToolManager.register_tool: a name registered again keeps its place
register_tool(reg, name) == IF Registered(reg, name) THEN reg ELSE Append(reg, name)

\* the names of the tools there are
ToolNames == {CourseSearchTool, CourseOutlineTool}

\* tool objects of one class are numbered as they are constructed
NoInstance == 0

FirstInstance == 1

\* mutant: a name that is taken keeps the tool object it has
store_tool_first_wins(objs, name, inst) ==
    IF objs[name] # NoInstance THEN objs ELSE [objs EXCEPT ![name] = inst]

\* ToolManager.register_tool, self.tools[name] = tool: the tool object kept
\* under each name afterwards
store_tool(objs, name, inst) == [objs EXCEPT ![name] = inst]

\* one call of register_tool: the name of the tool and the object given
Registration(name, inst) == [name |-> name, instance |-> inst]

\* ToolManager.get_tool_definitions: one definition per tool, in registration
\* order (a definition is written as its name)
get_tool_definitions(reg) == reg

\* what the store may answer when the manager executes `name` as its n-th lookup
StoreAnswers(reg, name, n) ==
    IF ~Registered(reg, name) THEN {NoneList}
    ELSE IF name = CourseSearchTool
         THEN {SearchResults(n, k) : k \in 0..MaxMatches} \cup {SearchError}
         ELSE {CourseOutline(n), NoneList}

\* mutant: an unknown tool name is a KeyError
execute_tool_strict(reg, ls, name, input, answer) ==
    IF ~Registered(reg, name)
    THEN [raised |-> TRUE, out |-> NoAttr, last_sources |-> ls]
    ELSE IF name = CourseSearchTool
         THEN [raised |-> FALSE,
               out |-> SearchExecute(ls[name], input, answer).out,
               last_sources |->
                   [ls EXCEPT ![name] = SearchExecute(ls[name], input, answer).last_sources]]
         ELSE [raised |-> FALSE, out |-> OutlineExecute(input, answer),
               last_sources |-> ls]

\* ToolManager.execute_tool: the string returned and the last_sources of the
\* tools afterwards
execute_tool(reg, ls, name, input, answer) ==
    IF ~Registered(reg, name)
    THEN [raised |-> FALSE, out |-> <<"Tool not found", name>>, last_sources |-> ls]
    ELSE IF name = CourseSearchTool
         THEN [raised |-> FALSE,
               out |-> SearchExecute(ls[name], input, answer).out,
               last_sources |->
                   [ls EXCEPT ![name] = SearchExecute(ls[name], input, answer).last_sources]]
         ELSE [raised |-> FALSE, out |-> OutlineExecute(input, answer),
               last_sources |-> ls]

\* the registered tools that hold citations, by place of registration
Holders(reg, ls) ==
    {i \in DOMAIN reg : reg[i] \in DOMAIN ls /\ ls[reg[i]] # <<>>}

\* mutant: the list of the last registered tool that holds one
get_last_sources_of_last(reg, ls) ==
    IF Holders(reg, ls) = {} THEN <<>>
    ELSE ls[reg[CHOOSE i \in Holders(reg, ls) : \A j \in Holders(reg, ls) : i >= j]]

\* ToolManager.get_last_sources: the list of the first registered tool that
\* holds one
get_last_sources(reg, ls) ==
    IF Holders(reg, ls) = {} THEN <<>>
    ELSE ls[reg[CHOOSE i \in Holders(reg, ls) : \A j \in Holders(reg, ls) : i <= j]]

\* mutant: only the first registered tool is reset
reset_first_only(reg, ls) ==
    [t \in DOMAIN ls |-> IF Len(reg) > 0 /\ reg[1] = t THEN <<>> ELSE ls[t]]

\* ToolManager.reset_sources: every registered tool's list becomes empty
reset_sources(reg, ls) ==
    [t \in DOMAIN ls |-> IF Registered(reg, t) THEN <<>> ELSE ls[t]]

----------------------------------------------------------------------------
VARIABLES
    MAX_TOOL_ROUNDS,        \* config.MAX_TOOL_ROUNDS
    pc,                     \* position of the invocation
    query,                  \* arguments of generate_response
    conversation_history,
    tools,
    tool_manager,           \* TRUE: a manager was passed, FALSE: None
    api_params,             \* parameters of the initial call
    tool_round,             \* locals of _handle_tool_execution
    messages,
    current_response,
    tool_results,
    block,                  \* index of the content block the for loop is at
    calls,                  \* history: parameters of every model call issued
    responses,              \* history: response of every model call that returned
    dispatches,             \* history: every execute_tool call made
    outcome,                \* "idle", "running", "returned" or "raised"
    result,                 \* the text returned
    error,                  \* the error raised
    sources,                \* what the caller's get_last_sources returned
    manager_tools,          \* ToolManager.tools: the names, in registration order
    tool_instances,         \* ToolManager.tools: the tool object kept under each name
    registrations,          \* history: every register_tool call made
    last_sources,           \* last_sources of every source-tracking tool
    executions,             \* history: every execute_tool call the manager served
    running,                \* the query whose invocation the variables above hold
    parked                  \* the invocation of the other query

vars == <<MAX_TOOL_ROUNDS, pc, query, conversation_history, tools, tool_manager,
          api_params, tool_round, messages, current_response, tool_results,
          block, calls, responses, dispatches, outcome, result, error,
          sources, manager_tools, tool_instances, registrations, last_sources,
          executions, running, parked>>

inputs == <<MAX_TOOL_ROUNDS, query, conversation_history, tools, tool_manager>>

locals == <<tool_round, messages, current_response, tool_results, block>>

history == <<calls, responses, dispatches>>

\* the tool manager with its tools
manager == <<manager_tools, tool_instances, registrations, last_sources, executions>>

\* the tools the manager keeps and the calls that registered them
registry == <<manager_tools, tool_instances, registrations>>

\* which of the two queries is running, and the invocation of the other
queries == <<running, parked>>

\* everything outside the invocation of generate_response
world == <<sources, manager, queries>>

NoParams ==
    [model |-> None, temperature |-> 0, max_tokens |-> 0, messages |-> <<>>,
     system |-> <<>>, tools |-> Absent, tool_choice |-> None]

\* the frame of one query: what the variables of an invocation hold
Invocation ==
    [pc |-> pc, query |-> query, conversation_history |-> conversation_history,
     tools |-> tools, tool_manager |-> tool_manager, api_params |-> api_params,
     tool_round |-> tool_round, messages |-> messages,
     current_response |-> current_response, tool_results |-> tool_results,
     block |-> block, calls |-> calls, responses |-> responses,
     dispatches |-> dispatches, outcome |-> outcome, result |-> result,
     error |-> error, sources |-> sources]

\* the frame of a query that has not called generate_response yet
Idle ==
    [pc |-> "idle", query |-> None, conversation_history |-> None,
     tools |-> NoneList, tool_manager |-> FALSE, api_params |-> NoParams,
     tool_round |-> 0, messages |-> <<>>, current_response |-> NoResponse,
     tool_results |-> <<>>, block |-> 0, calls |-> <<>>, responses |-> <<>>,
     dispatches |-> <<>>, outcome |-> "idle", result |-> NoAttr,
     error |-> None, sources |-> <<>>]

\* every registered name was registered once, with the first tool object of
\* its class
RegisteredOnce ==
    /\ tool_instances =
          [t \in ToolNames |-> IF Registered(manager_tools, t) THEN FirstInstance
                                                               ELSE NoInstance]
    /\ registrations =
          [i \in DOMAIN manager_tools |-> Registration(manager_tools[i], FirstInstance)]

\* a manager without tools: the generator is driven with a stand-in manager
NoTools ==
    /\ manager_tools = <<>>
    /\ RegisteredOnce
    /\ last_sources = [t \in SourceTracking |-> <<>>]
    /\ executions = <<>>

\* no query has called generate_response yet
NotStarted ==
    /\ running = 1
    /\ parked = Idle
    /\ pc = "idle"
    /\ query = None
    /\ conversation_history = None
    /\ tools = NoneList
    /\ tool_manager = FALSE
    /\ api_params = NoParams
    /\ tool_round = 0
    /\ messages = <<>>
    /\ current_response = NoResponse
    /\ tool_results = <<>>
    /\ block = 0
    /\ calls = <<>>
    /\ responses = <<>>
    /\ dispatches = <<>>
    /\ outcome = "idle"
    /\ result = NoAttr
    /\ error = None
    /\ sources = <<>>

Init ==
    /\ MAX_TOOL_ROUNDS \in 0..MaxRounds
    /\ NotStarted
    /\ NoTools

\* `return <response>.content[0].text`, which raises when there is no such text
ReturnText(resp) ==
    /\ pc' = "done"
    /\ outcome' = IF FirstText(resp).raised THEN "raised" ELSE "returned"
    /\ result' = FirstText(resp).text
    /\ error' = FirstText(resp).error

\* an exception leaves generate_response
Raise(e) ==
    /\ pc' = "done"
    /\ outcome' = "raised"
    /\ result' = NoAttr
    /\ error' = e

Continue(next) ==
    /\ pc' = next
    /\ UNCHANGED <<outcome, result, error>>

\* generate_response is entered: system_content and api_params are built
GenerateResponse(q, h, t, mgr) ==
    /\ pc = "idle"
    /\ query' = q
    /\ conversation_history' = h
    /\ tools' = t
    /\ tool_manager' = mgr
    /\ api_params' = InitialParams(q, h, t)
    /\ pc' = "initial_call"
    /\ outcome' = "running"
    /\ UNCHANGED <<MAX_TOOL_ROUNDS, locals, history, result, error>>
    /\ UNCHANGED world

\* mutant: the round counter is kept on the generator and is not set to 0 on
\* entry
EnterToolExecutionKeepingRound(resp) ==
    /\ tool_round' = tool_round
    /\ messages' = api_params.messages
    /\ current_response' = resp
    /\ Continue("loop")
    /\ UNCHANGED <<tool_results, block>>

\* _handle_tool_execution is entered: tool_round = 0, the transcript is copied
EnterToolExecution(resp) ==
    /\ tool_round' = 0
    /\ messages' = api_params.messages
    /\ current_response' = resp
    /\ Continue("loop")
    /\ UNCHANGED <<tool_results, block>>

\* response = self.client.messages.create(**api_params), and what follows it
InitialCallReturns(resp) ==
    /\ pc = "initial_call"
    /\ calls' = Append(calls, api_params)
    /\ responses' = Append(responses, resp)
    /\ IF NeedsToolExecution(resp, tool_manager)
       THEN EnterToolExecution(resp)
       ELSE ReturnText(resp) /\ UNCHANGED locals
    /\ UNCHANGED <<inputs, api_params, dispatches>>
    /\ UNCHANGED world

InitialCallRaises ==
    /\ pc = "initial_call"
    /\ calls' = Append(calls, api_params)
    /\ Raise("APIError")
    /\ UNCHANGED <<inputs, api_params, locals, responses, dispatches>>
    /\ UNCHANGED world

\* mutant: the counter is incremented only when a round of tools is run
LoopHeadCountingRounds ==
    /\ pc = "loop"
    /\ IF LoopContinues(tool_round, MAX_TOOL_ROUNDS)
       THEN IF IsFinal(current_response)
            THEN /\ ReturnText(current_response)
                 /\ UNCHANGED <<tool_round, messages, tool_results, block>>
            ELSE /\ tool_round' = tool_round + 1
                 /\ messages' = Append(messages, AssistantTurn(current_response))
                 /\ tool_results' = <<>>
                 /\ block' = 1
                 /\ Continue("tools")
       ELSE /\ ReturnText(current_response)
            /\ UNCHANGED <<tool_round, messages, tool_results, block>>
    /\ UNCHANGED <<inputs, api_params, current_response, history>>
    /\ UNCHANGED world

\* mutant: the transcript is the list of the initial call itself, not a copy of
\* it, so the assistant turn is appended to the initial call's list as well
LoopHeadOnSharedList ==
    /\ pc = "loop"
    /\ IF LoopContinues(tool_round, MAX_TOOL_ROUNDS)
       THEN /\ tool_round' = tool_round + 1
            /\ IF IsFinal(current_response)
               THEN /\ ReturnText(current_response)
                    /\ UNCHANGED <<api_params, messages, tool_results, block>>
               ELSE /\ messages' = Append(messages, AssistantTurn(current_response))
                    /\ api_params' = [api_params EXCEPT !.messages = messages']
                    /\ tool_results' = <<>>
                    /\ block' = 1
                    /\ Continue("tools")
       ELSE /\ ReturnText(current_response)
            /\ UNCHANGED <<api_params, tool_round, messages, tool_results, block>>
    /\ UNCHANGED <<inputs, current_response, history>>
    /\ UNCHANGED world

\* the head of the while loop, down to the assistant turn being appended;
\* when the loop condition fails, the return that follows the loop
LoopHead ==
    /\ pc = "loop"
    /\ IF LoopContinues(tool_round, MAX_TOOL_ROUNDS)
       THEN /\ tool_round' = tool_round + 1
            /\ IF IsFinal(current_response)
               THEN /\ ReturnText(current_response)
                    /\ UNCHANGED <<messages, tool_results, block>>
               ELSE /\ messages' = Append(messages, AssistantTurn(current_response))
                    /\ tool_results' = <<>>
                    /\ block' = 1
                    /\ Continue("tools")
       ELSE /\ ReturnText(current_response)
            /\ UNCHANGED <<tool_round, messages, tool_results, block>>
    /\ UNCHANGED <<inputs, api_params, current_response, history>>
    /\ UNCHANGED world

\* what execute_tool is called with: content_block.name, **content_block.input
ExecuteToolCall(b) == [name |-> b.name, input |-> b.input]

\* history entry of one execute_tool call: its arguments, the block it was made
\* for, the model call whose response held that block, and how it ended
DispatchRecord(b, out, raised) ==
    [name |-> ExecuteToolCall(b).name, input |-> ExecuteToolCall(b).input,
     id |-> b.id, after_call |-> Len(calls), round |-> tool_round,
     raised |-> raised, out |-> out]

\* one iteration of `for content_block in current_response.content` on a block
\* that is not a tool_use block
SkipBlock ==
    /\ pc = "tools"
    /\ ~ForLoopDone(block, current_response)
    /\ ~IsToolUse(current_response.content[block])
    /\ block' = block + 1
    /\ Continue("tools")
    /\ UNCHANGED <<inputs, api_params, tool_round, messages, current_response,
                   tool_results, history>>
    /\ UNCHANGED world

\* one iteration on a tool_use block, execute_tool having returned `out`: the
\* tool_result entry is appended to tool_results
ToolResultCollected(out) ==
    /\ pc = "tools"
    /\ ~ForLoopDone(block, current_response)
    /\ IsToolUse(current_response.content[block])
    /\ dispatches' = Append(dispatches,
                            DispatchRecord(current_response.content[block], out, FALSE))
    /\ tool_results' = Append(tool_results,
                              ToolResult(current_response.content[block], out))
    /\ block' = block + 1
    /\ Continue("tools")
    /\ UNCHANGED <<inputs, api_params, tool_round, messages, current_response,
                   calls, responses>>

\* one iteration on a tool_use block: the manager is a stand-in whose
\* execute_tool returns a string
ExecuteToolReturns(out) ==
    /\ ToolResultCollected(out)
    /\ UNCHANGED world

\* mutant: the exception is caught and fed back to the model as the result
ExecuteToolCaught ==
    /\ pc = "tools"
    /\ ~ForLoopDone(block, current_response)
    /\ IsToolUse(current_response.content[block])
    /\ dispatches' = Append(dispatches,
                            DispatchRecord(current_response.content[block], NoAttr, TRUE))
    /\ tool_results' = Append(tool_results,
                              ToolResult(current_response.content[block], <<"error">>))
    /\ block' = block + 1
    /\ Continue("tools")
    /\ UNCHANGED <<inputs, api_params, tool_round, messages, current_response,
                   calls, responses>>
    /\ UNCHANGED world

\* one iteration on a tool_use block: execute_tool raises, nothing catches it
ExecuteToolRaises ==
    /\ pc = "tools"
    /\ ~ForLoopDone(block, current_response)
    /\ IsToolUse(current_response.content[block])
    /\ dispatches' = Append(dispatches,
                            DispatchRecord(current_response.content[block], NoAttr, TRUE))
    /\ Raise("ToolError")
    /\ UNCHANGED <<inputs, api_params, locals, calls, responses>>
    /\ UNCHANGED world

\* mutant: the response of the follow-up call is dropped, the loop goes on with
\* the response it had
FollowUpCallDiscarded(resp) ==
    /\ pc = "tools"
    /\ ForLoopDone(block, current_response)
    /\ messages' = WithToolResults(messages, tool_results)
    /\ calls' = Append(calls, NextParams(messages', api_params, tool_round,
                                         MAX_TOOL_ROUNDS))
    /\ responses' = Append(responses, resp)
    /\ Continue("loop")
    /\ UNCHANGED <<inputs, api_params, tool_round, current_response, tool_results,
                   block, dispatches>>
    /\ UNCHANGED world

\* after the for loop: the result turn is appended, next_params is built and
\* the next model call is made
FollowUpCallReturns(resp) ==
    /\ pc = "tools"
    /\ ForLoopDone(block, current_response)
    /\ messages' = WithToolResults(messages, tool_results)
    /\ calls' = Append(calls, NextParams(messages', api_params, tool_round,
                                         MAX_TOOL_ROUNDS))
    /\ responses' = Append(responses, resp)
    /\ current_response' = resp
    /\ Continue("loop")
    /\ UNCHANGED <<inputs, api_params, tool_round, tool_results, block, dispatches>>
    /\ UNCHANGED world

\* mutant: a failed follow-up call is attempted again
FollowUpCallRetried ==
    /\ pc = "tools"
    /\ ForLoopDone(block, current_response)
    /\ calls' = Append(calls, NextParams(WithToolResults(messages, tool_results),
                                         api_params, tool_round, MAX_TOOL_ROUNDS))
    /\ Continue("tools")
    /\ UNCHANGED <<inputs, api_params, locals, responses, dispatches>>
    /\ UNCHANGED world

\* mutant: a failed follow-up call makes the for loop start over
FollowUpCallRestartsRound ==
    /\ pc = "tools"
    /\ ForLoopDone(block, current_response)
    /\ tool_results' = <<>>
    /\ block' = 1
    /\ Continue("tools")
    /\ UNCHANGED <<inputs, api_params, tool_round, messages, current_response,
                   history>>
    /\ UNCHANGED world

FollowUpCallRaises ==
    /\ pc = "tools"
    /\ ForLoopDone(block, current_response)
    /\ messages' = WithToolResults(messages, tool_results)
    /\ calls' = Append(calls, NextParams(messages', api_params, tool_round,
                                         MAX_TOOL_ROUNDS))
    /\ Raise("APIError")
    /\ UNCHANGED <<inputs, api_params, tool_round, current_response, tool_results,
                   block, responses, dispatches>>
    /\ UNCHANGED world

Next ==
    \/ \E q \in Queries, h \in Histories, t \in ToolsArgs, mgr \in BOOLEAN :
          GenerateResponse(q, h, t, mgr)
    \/ \E s \in StopReasons, shape \in Shapes :
          InitialCallReturns(Response(Len(calls) + 1, s, shape))
    \/ InitialCallRaises
    \/ LoopHead
    \/ SkipBlock
    \/ ExecuteToolReturns(ToolOutput(Len(dispatches) + 1))
    \/ ExecuteToolRaises
    \/ \E s \in StopReasons, shape \in Shapes :
          FollowUpCallReturns(Response(Len(calls) + 1, s, shape))
    \/ FollowUpCallRaises

Spec == Init /\ [][Next]_vars

\* a model call that was issued returns a response or raises
ModelCallEnds ==
    \/ \E s \in StopReasons, shape \in Shapes :
          InitialCallReturns(Response(Len(calls) + 1, s, shape))
    \/ InitialCallRaises
    \/ \E s \in StopReasons, shape \in Shapes :
          FollowUpCallReturns(Response(Len(calls) + 1, s, shape))
    \/ FollowUpCallRaises

\* an execute_tool call that was made returns a string or raises
DispatchEnds ==
    \/ ExecuteToolReturns(ToolOutput(Len(dispatches) + 1))
    \/ ExecuteToolRaises

\* the interpreter runs the statements between two calls
CodeRuns == LoopHead \/ SkipBlock

\* generate_response is called with the tool definitions, with or without a
\* manager; the model and the manager answer as they like
TerminationNext ==
    \/ \E q \in Queries, mgr \in BOOLEAN :
          GenerateResponse(q, None, <<CourseSearchTool, CourseOutlineTool>>, mgr)
    \/ \E s \in StopReasons, shape \in Shapes :
          InitialCallReturns(Response(Len(calls) + 1, s, shape))
    \/ InitialCallRaises
    \/ LoopHead
    \/ SkipBlock
    \/ ExecuteToolReturns(ToolOutput(Len(dispatches) + 1))
    \/ ExecuteToolRaises
    \/ \E s \in StopReasons, shape \in Shapes :
          FollowUpCallReturns(Response(Len(calls) + 1, s, shape))
    \/ FollowUpCallRaises

TerminationSpec ==
    /\ Init
    /\ [][TerminationNext]_vars
    /\ WF_vars(ModelCallEnds)
    /\ WF_vars(DispatchEnds)
    /\ WF_vars(CodeRuns)

----------------------------------------------------------------------------
(* A query of RAGSystem (backend/rag_system.py): generate_response with the *)
(* tool manager and its tools, then the citations are read and reset        *)

\* the question of query r
QueryOf(r) == IF r = 1 THEN "query 1" ELSE "query 2"

\* the number, over both queries, of call k of query r
CallNumber(r, k) == (r - 1) * (MaxRounds + 1) * 2 + k

\* the number of the next model call of the running query
NextCall == CallNumber(running, Len(calls) + 1)

\* the responses the model gives to a query: a text, a tool call, or both
QueryShapes == {<<"text">>, <<"tool_use">>, <<"text", "tool_use">>}

\* what the store answered to a lookup: "unregistered" when the manager knows
\* no such tool and makes no lookup
AnswerKind(reg, name, answer) ==
    IF ~Registered(reg, name) THEN "unregistered"
    ELSE IF name = CourseSearchTool
         THEN IF answer.error # None THEN "error"
              ELSE IF Len(answer.documents) = 0 THEN "no match" ELSE "match"
         ELSE IF answer = NoneList THEN "no outline" ELSE "outline"

\* history entry of one execute_tool call served by the manager: who called,
\* with what, whether a source-tracking tool ran, the string returned and the
\* citations the tools hold afterwards
Execution(b, answer, e) ==
    [by |-> running, name |-> b.name, input |-> b.input, id |-> b.id,
     answer |-> AnswerKind(manager_tools, b.name, answer),
     raised |-> e.raised, out |-> e.out,
     tracked |-> Registered(manager_tools, b.name) /\ b.name \in SourceTracking,
     last_sources |-> e.last_sources]

\* a search executed on the manager before the query, which matched one chunk
\* and whose citation was not reset
EarlierExecution ==
    [by |-> 0, name |-> CourseSearchTool, input |-> <<"input", 0, 0>>,
     id |-> <<"id", 0, 0>>, answer |-> "match", raised |-> FALSE,
     out |-> SearchExecute(<<>>, <<"input", 0, 0>>, SearchResults(0, 1)).out,
     tracked |-> TRUE,
     last_sources |->
         [t \in SourceTracking |->
             SearchExecute(<<>>, <<"input", 0, 0>>, SearchResults(0, 1)).last_sources]]

\* the search tool is registered, alone or followed by the outline tool; the
\* manager is fresh, or holds the citation of an earlier execution
RagInit ==
    /\ MAX_TOOL_ROUNDS \in 0..MaxRounds
    /\ NotStarted
    /\ manager_tools \in {register_tool(<<>>, CourseSearchTool),
                           register_tool(register_tool(<<>>, CourseSearchTool),
                                         CourseOutlineTool)}
    /\ RegisteredOnce
    /\ executions \in {<<>>, <<EarlierExecution>>}
    /\ last_sources = IF executions = <<>> THEN [t \in SourceTracking |-> <<>>]
                                            ELSE EarlierExecution.last_sources

\* RAGSystem.query calls generate_response with the manager and its definitions
QueryStarts ==
    GenerateResponse(QueryOf(running), None, get_tool_definitions(manager_tools), TRUE)

\* mutant: the citations are reset once the tool's string has been collected
ExecuteToolOnManagerDraining ==
    /\ pc = "tools"
    /\ ~ForLoopDone(block, current_response)
    /\ IsToolUse(current_response.content[block])
    /\ \E answer \in StoreAnswers(manager_tools, current_response.content[block].name,
                                   Len(executions) + 1) :
          LET b == current_response.content[block]
              e == execute_tool(manager_tools, last_sources, b.name, b.input, answer)
          IN  /\ ~e.raised
              /\ ToolResultCollected(e.out)
              /\ last_sources' = reset_sources(manager_tools, e.last_sources)
              /\ executions' = Append(executions, Execution(b, answer, e))
    /\ UNCHANGED <<sources, registry, queries>>

\* one iteration on a tool_use block: the manager executes the tool, the store
\* answering the lookup
ExecuteToolOnManager ==
    /\ pc = "tools"
    /\ ~ForLoopDone(block, current_response)
    /\ IsToolUse(current_response.content[block])
    /\ \E answer \in StoreAnswers(manager_tools, current_response.content[block].name,
                                   Len(executions) + 1) :
          LET b == current_response.content[block]
              e == execute_tool(manager_tools, last_sources, b.name, b.input, answer)
          IN  /\ ~e.raised
              /\ ToolResultCollected(e.out)
              /\ last_sources' = e.last_sources
              /\ executions' = Append(executions, Execution(b, answer, e))
    /\ UNCHANGED <<sources, registry, queries>>

\* one iteration on a tool_use block: the manager's execute_tool raises, as a
\* registered tool does when it is called with arguments it does not accept
ExecuteToolOnManagerRaises ==
    /\ pc = "tools"
    /\ ~ForLoopDone(block, current_response)
    /\ IsToolUse(current_response.content[block])
    /\ LET b == current_response.content[block]
       IN  IF Registered(manager_tools, b.name)
           THEN TRUE
           ELSE execute_tool(manager_tools, last_sources, b.name, b.input, NoneList).raised
    /\ ExecuteToolRaises

\* mutant: every query is handed the citations of its own last search
QueryReadsOwnSources ==
    /\ pc = "done"
    /\ outcome = "returned"
    /\ LET own == SelectSeq(executions, LAMBDA e : e.tracked /\ e.by = running)
       IN  sources' = IF own = <<>> THEN <<>>
                      ELSE own[Len(own)].last_sources[CourseSearchTool]
    /\ pc' = "sources_read"
    /\ UNCHANGED <<inputs, api_params, locals, history, outcome, result, error,
                   manager, queries>>

\* generate_response has returned: sources = self.tool_manager.get_last_sources()
QueryReadsSources ==
    /\ pc = "done"
    /\ outcome = "returned"
    /\ sources' = get_last_sources(manager_tools, last_sources)
    /\ pc' = "sources_read"
    /\ UNCHANGED <<inputs, api_params, locals, history, outcome, result, error,
                   manager, queries>>

\* self.tool_manager.reset_sources(), and the query returns
QueryResetsSources ==
    /\ pc = "sources_read"
    /\ last_sources' = reset_sources(manager_tools, last_sources)
    /\ pc' = "query_done"
    /\ UNCHANGED <<inputs, api_params, locals, history, outcome, result, error,
                   sources, registry, executions, queries>>

RagNext ==
    \/ QueryStarts
    \/ \E s \in StopReasons, shape \in QueryShapes :
          InitialCallReturns(Response(NextCall, s, shape))
    \/ InitialCallRaises
    \/ LoopHead
    \/ SkipBlock
    \/ ExecuteToolOnManager
    \/ ExecuteToolOnManagerRaises
    \/ \E s \in StopReasons, shape \in QueryShapes :
          FollowUpCallReturns(Response(NextCall, s, shape))
    \/ FollowUpCallRaises
    \/ QueryReadsSources
    \/ QueryResetsSources

RagSpec == RagInit /\ [][RagNext]_vars

----------------------------------------------------------------------------
(* Two queries at once on one generator and one tool manager: each query    *)
(* runs generate_response in its own thread, with its own arguments and     *)
(* locals; the generator's base_params and the manager are shared           *)

\* largest MAX_TOOL_ROUNDS explored with two queries running at once
MaxConcurrentRounds == 1

\* both tools are registered and no citation is held
ConcurrentInit ==
    /\ MAX_TOOL_ROUNDS \in 0..MaxConcurrentRounds
    /\ NotStarted
    /\ manager_tools = register_tool(register_tool(<<>>, CourseSearchTool),
                                     CourseOutlineTool)
    /\ RegisteredOnce
    /\ last_sources = [t \in SourceTracking |-> <<>>]
    /\ executions = <<>>

\* the query has ended: it returned, or generate_response raised
Ended(f) == f.pc = "query_done" \/ (f.pc = "done" /\ f.outcome = "raised")

\* mutant: the transcript is kept on the generator, not in a local
SwitchSharingTranscript ==
    /\ ~Ended(parked)
    /\ running' = 3 - running
    /\ parked' = Invocation
    /\ pc' = parked.pc
    /\ query' = parked.query
    /\ conversation_history' = parked.conversation_history
    /\ tools' = parked.tools
    /\ tool_manager' = parked.tool_manager
    /\ api_params' = parked.api_params
    /\ tool_round' = parked.tool_round
    /\ messages' = messages
    /\ current_response' = parked.current_response
    /\ tool_results' = parked.tool_results
    /\ block' = parked.block
    /\ calls' = parked.calls
    /\ responses' = parked.responses
    /\ dispatches' = parked.dispatches
    /\ outcome' = parked.outcome
    /\ result' = parked.result
    /\ error' = parked.error
    /\ sources' = parked.sources
    /\ UNCHANGED <<MAX_TOOL_ROUNDS, manager>>

\* the thread of the other query is scheduled: the arguments, the locals and
\* the caller's variables are those of its own frames, the manager stays
Switch ==
    /\ ~Ended(parked)
    /\ running' = 3 - running
    /\ parked' = Invocation
    /\ pc' = parked.pc
    /\ query' = parked.query
    /\ conversation_history' = parked.conversation_history
    /\ tools' = parked.tools
    /\ tool_manager' = parked.tool_manager
    /\ api_params' = parked.api_params
    /\ tool_round' = parked.tool_round
    /\ messages' = parked.messages
    /\ current_response' = parked.current_response
    /\ tool_results' = parked.tool_results
    /\ block' = parked.block
    /\ calls' = parked.calls
    /\ responses' = parked.responses
    /\ dispatches' = parked.dispatches
    /\ outcome' = parked.outcome
    /\ result' = parked.result
    /\ error' = parked.error
    /\ sources' = parked.sources
    /\ UNCHANGED <<MAX_TOOL_ROUNDS, manager>>

\* what the model answers to call k of a query: a final text, or one tool call
ModelAnswers(k) ==
    {Response(k, "end_turn", <<"text">>), Response(k, "tool_use", <<"tool_use">>)}

ConcurrentNext ==
    \/ QueryStarts
    \/ \E resp \in ModelAnswers(NextCall) : InitialCallReturns(resp)
    \/ InitialCallRaises
    \/ LoopHead
    \/ ExecuteToolOnManager
    \/ ExecuteToolOnManagerRaises
    \/ \E resp \in ModelAnswers(NextCall) : FollowUpCallReturns(resp)
    \/ FollowUpCallRaises
    \/ QueryReadsSources
    \/ QueryResetsSources
    \/ Switch

ConcurrentSpec == ConcurrentInit /\ [][ConcurrentNext]_vars

----------------------------------------------------------------------------
(* Two queries one after the other on one generator and one tool manager:   *)
(* the second starts when the first has returned or raised                  *)

\* the first query has ended and the host makes the second: a new invocation,
\* on the manager as the first query left it
NextQuery ==
    /\ running = 1
    /\ Ended(Invocation)
    /\ running' = running + 1
    /\ parked' = Invocation
    /\ pc' = Idle.pc
    /\ query' = Idle.query
    /\ conversation_history' = Idle.conversation_history
    /\ tools' = Idle.tools
    /\ tool_manager' = Idle.tool_manager
    /\ api_params' = Idle.api_params
    /\ tool_round' = Idle.tool_round
    /\ messages' = Idle.messages
    /\ current_response' = Idle.current_response
    /\ tool_results' = Idle.tool_results
    /\ block' = Idle.block
    /\ calls' = Idle.calls
    /\ responses' = Idle.responses
    /\ dispatches' = Idle.dispatches
    /\ outcome' = Idle.outcome
    /\ result' = Idle.result
    /\ error' = Idle.error
    /\ sources' = Idle.sources
    /\ UNCHANGED <<MAX_TOOL_ROUNDS, manager>>

SeriesNext ==
    \/ QueryStarts
    \/ \E resp \in ModelAnswers(NextCall) : InitialCallReturns(resp)
    \/ InitialCallRaises
    \/ LoopHead
    \/ ExecuteToolOnManager
    \/ ExecuteToolOnManagerRaises
    \/ \E resp \in ModelAnswers(NextCall) : FollowUpCallReturns(resp)
    \/ FollowUpCallRaises
    \/ QueryReadsSources
    \/ QueryResetsSources
    \/ NextQuery

SeriesSpec == ConcurrentInit /\ [][SeriesNext]_vars

----------------------------------------------------------------------------
(* Two invocations of generate_response one after the other on one          *)
(* generator, each with arguments of its own, the manager being a stand-in  *)

\* the first invocation has ended and generate_response is called again: the
\* arguments and the locals of the new call are not bound yet
NextInvocation ==
    /\ running = 1
    /\ pc = "done"
    /\ running' = running + 1
    /\ pc' = Idle.pc
    /\ query' = Idle.query
    /\ conversation_history' = Idle.conversation_history
    /\ tools' = Idle.tools
    /\ tool_manager' = Idle.tool_manager
    /\ api_params' = Idle.api_params
    /\ tool_round' = Idle.tool_round
    /\ messages' = Idle.messages
    /\ current_response' = Idle.current_response
    /\ tool_results' = Idle.tool_results
    /\ block' = Idle.block
    /\ calls' = Idle.calls
    /\ responses' = Idle.responses
    /\ dispatches' = Idle.dispatches
    /\ outcome' = Idle.outcome
    /\ result' = Idle.result
    /\ error' = Idle.error
    /\ UNCHANGED <<MAX_TOOL_ROUNDS, sources, manager, parked>>

RepeatNext ==
    \/ \E h \in Histories, t \in ToolsArgs, mgr \in BOOLEAN :
          GenerateResponse(QueryOf(running), h, t, mgr)
    \/ \E resp \in ModelAnswers(NextCall) : InitialCallReturns(resp)
    \/ InitialCallRaises
    \/ LoopHead
    \/ ExecuteToolReturns(ToolOutput(Len(dispatches) + 1))
    \/ ExecuteToolRaises
    \/ \E resp \in ModelAnswers(NextCall) : FollowUpCallReturns(resp)
    \/ FollowUpCallRaises
    \/ NextInvocation

RepeatSpec == Init /\ [][RepeatNext]_vars

----------------------------------------------------------------------------
(* Two invocations of generate_response on one generator that may be given  *)
(* the same arguments, the same responses and the same tool outputs: the    *)
(* first is kept for comparison when the second starts                      *)

\* what the model answers to call k: a final text, one tool call, or a text
\* with stop_reason tool_use and no tool call
AnswersGiven(k) == ModelAnswers(k) \cup {Response(k, "tool_use", <<"text">>)}

\* the strings the n-th execute_tool call of an invocation may return
ToolOutputs(n) == {ToolOutput(n), <<"other output", n>>}

\* the first invocation has ended and generate_response is called again.  The
\* locals of the new call are not bound: they are left holding what the
\* first call left, and every one of them is assigned before it is read
InvokeAgain ==
    /\ running = 1
    /\ pc = "done"
    /\ running' = running + 1
    /\ parked' = Invocation
    /\ pc' = Idle.pc
    /\ query' = Idle.query
    /\ conversation_history' = Idle.conversation_history
    /\ tools' = Idle.tools
    /\ tool_manager' = Idle.tool_manager
    /\ api_params' = Idle.api_params
    /\ calls' = Idle.calls
    /\ responses' = Idle.responses
    /\ dispatches' = Idle.dispatches
    /\ outcome' = Idle.outcome
    /\ result' = Idle.result
    /\ error' = Idle.error
    /\ UNCHANGED <<MAX_TOOL_ROUNDS, locals, sources, manager>>

DeterminismInit ==
    /\ MAX_TOOL_ROUNDS \in 0..MaxConcurrentRounds
    /\ NotStarted
    /\ NoTools

DeterminismNext ==
    \/ \E q \in Queries, h \in Histories, t \in ToolsArgs, mgr \in BOOLEAN :
          GenerateResponse(q, h, t, mgr)
    \/ \E resp \in AnswersGiven(Len(calls) + 1) : InitialCallReturns(resp)
    \/ InitialCallRaises
    \/ LoopHead
    \/ SkipBlock
    \/ \E out \in ToolOutputs(Len(dispatches) + 1) : ExecuteToolReturns(out)
    \/ ExecuteToolRaises
    \/ \E resp \in AnswersGiven(Len(calls) + 1) : FollowUpCallReturns(resp)
    \/ FollowUpCallRaises
    \/ InvokeAgain

DeterminismSpec == DeterminismInit /\ [][DeterminismNext]_vars

----------------------------------------------------------------------------
(* The tool manager used directly, as its tests do: tools are registered,   *)
(* executed by name, and the citations are read and reset                   *)

\* largest number of execute_tool calls made on the manager
MaxExecutions == 4

\* the variables of generate_response, which is not called here
generator == <<MAX_TOOL_ROUNDS, pc, query, conversation_history, tools,
               tool_manager, api_params, locals, history, outcome, result, error>>

\* the tool-call block a direct call execute_tool(name, **kwargs) stands for
DirectCall(name, n) ==
    [type |-> "tool_use", text |-> NoAttr, id |-> <<"id", 0, n>>, name |-> name,
     input |-> <<"input", 0, n>>]

ManagerInit ==
    /\ MAX_TOOL_ROUNDS = MaxRounds
    /\ NotStarted
    /\ NoTools

\* manager.register_tool(tool) with a tool that is not registered yet
RegisterTool(name) ==
    /\ ~Registered(manager_tools, name)
    /\ manager_tools' = register_tool(manager_tools, name)
    /\ tool_instances' = store_tool(tool_instances, name, FirstInstance)
    /\ registrations' = Append(registrations, Registration(name, FirstInstance))
    /\ UNCHANGED <<generator, sources, last_sources, executions, queries>>

\* manager.execute_tool(name, **kwargs), the store giving `answer`
ExecuteTool(name, answer) ==
    /\ Len(executions) < MaxExecutions
    /\ LET b == DirectCall(name, Len(executions) + 1)
           e == execute_tool(manager_tools, last_sources, name, b.input, answer)
       IN  /\ last_sources' = e.last_sources
           /\ executions' = Append(executions, Execution(b, answer, e))
    /\ UNCHANGED <<generator, sources, registry, queries>>

\* sources = manager.get_last_sources()
GetLastSources ==
    /\ sources' = get_last_sources(manager_tools, last_sources)
    /\ UNCHANGED <<generator, manager, queries>>

\* manager.reset_sources()
ResetSources ==
    /\ last_sources' = reset_sources(manager_tools, last_sources)
    /\ UNCHANGED <<generator, sources, registry, executions, queries>>

ManagerNext ==
    \/ \E name \in {CourseSearchTool, CourseOutlineTool} : RegisterTool(name)
    \/ \E name \in {CourseSearchTool, CourseOutlineTool} :
          \E answer \in StoreAnswers(manager_tools, name, Len(executions) + 1) :
              ExecuteTool(name, answer)
    \/ GetLastSources
    \/ ResetSources

ManagerSpec == ManagerInit /\ [][ManagerNext]_vars

----------------------------------------------------------------------------
(* The manager with tools registered again, and with more than one tool     *)
(* that keeps citations                                                     *)

\* largest number of register_tool calls
MaxRegistrations == 3

\* the citations a tool of class `name` leaves when it matched k chunks
CitationsOf(name, k) ==
    SourcesOf(SearchResults(IF name = CourseSearchTool THEN 1 ELSE 2, k))

\* a manager without tools; the search tool keeps a last_sources list, the
\* other tool keeps one or does not
RegistryInit ==
    /\ MAX_TOOL_ROUNDS = MaxRounds
    /\ NotStarted
    /\ manager_tools = <<>>
    /\ RegisteredOnce
    /\ last_sources \in {[t \in SourceTracking |-> <<>>], [t \in ToolNames |-> <<>>]}
    /\ executions = <<>>

\* manager.register_tool(tool), the tool being the object the manager keeps
\* under that name or one constructed for the call; what the manager can
\* reach under the name afterwards is the last_sources of the object it keeps
RegisterToolObject(name, inst) ==
    /\ Len(registrations) < MaxRegistrations
    /\ inst # NoInstance
    /\ inst \in {tool_instances[name], tool_instances[name] + 1}
    /\ manager_tools' = register_tool(manager_tools, name)
    /\ tool_instances' = store_tool(tool_instances, name, inst)
    /\ registrations' = Append(registrations, Registration(name, inst))
    /\ last_sources' =
          IF name \in DOMAIN last_sources /\ tool_instances'[name] # tool_instances[name]
          THEN [last_sources EXCEPT ![name] = <<>>]
          ELSE last_sources
    /\ UNCHANGED <<generator, sources, executions, queries>>

\* tool.last_sources = [...] on a registered tool that keeps citations
ToolHolds(name, k) ==
    /\ Registered(manager_tools, name)
    /\ name \in DOMAIN last_sources
    /\ last_sources' = [last_sources EXCEPT ![name] = CitationsOf(name, k)]
    /\ UNCHANGED <<generator, sources, registry, executions, queries>>

RegistryNext ==
    \/ \E name \in ToolNames, inst \in 1..MaxRegistrations : RegisterToolObject(name, inst)
    \/ \E name \in ToolNames, k \in 0..1 : ToolHolds(name, k)
    \/ GetLastSources
    \/ ResetSources

RegistrySpec == RegistryInit /\ [][RegistryNext]_vars

----------------------------------------------------------------------------
(* Vocabulary of the properties *)

\* the tool-call blocks of a response, in the order they appear
RequestsOf(resp) == SelectSeq(resp.content, LAMBDA b : b.type = "tool_use")

\* the response opens with a text block, whose text is then "its text"
HasText(resp) == Len(resp.content) > 0 /\ resp.content[1].type = "text"

TextOf(resp) == resp.content[1].text

\* the dispatches made while the response to call k was being processed
DispatchesFor(k) == SelectSeq(dispatches, LAMBDA d : d.after_call = k)

\* rounds of tool execution: one assistant tool-call turn is appended per round
ExecutionRounds ==
    Cardinality({i \in DOMAIN messages : messages[i].role = "assistant"})

\* a model call or a tool dispatch raised
Faulted == error \in {"APIError", "ToolError"}

Finished == pc = "done" /\ ~Faulted

ToolsAttached(params) == params.tools # Absent

----------------------------------------------------------------------------
(* C1 *)

\* the response asks for exactly one tool: stop_reason tool_use, one tool-call block
RequestsOneTool(resp) ==
    resp.stop_reason = "tool_use" /\ Len(RequestsOf(resp)) = 1

\* tools and a manager were passed, MAX_TOOL_ROUNDS is 2, nothing raised, and
\* every response to a call that carried tools asked for one tool
AlwaysRequestsScenario ==
    /\ MAX_TOOL_ROUNDS = 2
    /\ ToolsGiven(tools)
    /\ tool_manager
    /\ Finished
    /\ \A k \in 1..Len(responses) :
          ToolsAttached(calls[k]) => RequestsOneTool(responses[k])

\* C1: with MAX_TOOL_ROUNDS = 2 and a model that asks for one tool in every
\* response to a call that carried tools, a finished invocation has made exactly
\* 3 model calls and exactly 2 tool dispatches, its last call carried no tool
\* definitions, and the text it returned is the text of the last response.
C1_ThreeCallsTwoDispatches ==
    AlwaysRequestsScenario =>
        /\ Len(calls) = MAX_TOOL_ROUNDS + 1
        /\ Len(responses) = MAX_TOOL_ROUNDS + 1
        /\ Len(dispatches) = MAX_TOOL_ROUNDS
        /\ ~ToolsAttached(calls[Len(calls)])
        /\ calls[Len(calls)].tool_choice = None
        /\ outcome = "returned" => result = TextOf(responses[Len(responses)])
        /\ HasText(responses[Len(responses)]) => outcome = "returned"

C1_Witness ==
    /\ AlwaysRequestsScenario
    /\ outcome = "returned"
    /\ Len(calls) = 3
    /\ Len(dispatches) = 2

----------------------------------------------------------------------------
(* C2 *)

\* C2: whatever the model answers and whatever MAX_TOOL_ROUNDS is, an invocation
\* never executes more than MAX_TOOL_ROUNDS rounds of tools and never issues
\* more than MAX_TOOL_ROUNDS + 1 model calls.
C2_BoundedRoundsAndCalls ==
    /\ ExecutionRounds <= MAX_TOOL_ROUNDS
    /\ \A i \in DOMAIN dispatches : dispatches[i].after_call <= MAX_TOOL_ROUNDS
    /\ Len(calls) <= MAX_TOOL_ROUNDS + 1

C2_Witness ==
    /\ MAX_TOOL_ROUNDS = MaxRounds
    /\ ExecutionRounds = MAX_TOOL_ROUNDS
    /\ Len(calls) = MAX_TOOL_ROUNDS + 1
    /\ Len(dispatches) >= MAX_TOOL_ROUNDS

----------------------------------------------------------------------------
(* C3 *)

\* C3: when the first response holds no tool-call block, the invocation makes
\* exactly one model call, dispatches no tool and returns that response's text,
\* whether or not tools and a tool manager were passed.
C3_NoRequestMeansOneCall ==
    (Len(responses) >= 1 /\ RequestsOf(responses[1]) = <<>>) =>
        /\ Len(calls) = 1
        /\ Len(dispatches) = 0
        /\ (pc = "done" /\ HasText(responses[1])) =>
              outcome = "returned" /\ result = TextOf(responses[1])

----------------------------------------------------------------------------
(* C4 *)

\* the first response asks for one tool and the second asks for none
OneToolRoundScenario ==
    /\ Len(responses) >= 2
    /\ RequestsOneTool(responses[1])
    /\ responses[2].stop_reason # "tool_use"
    /\ RequestsOf(responses[2]) = <<>>

----------------------------------------------------------------------------
(* C5 *)

\* C5: a response that arrives after a tool round and holds no tool-call
\* request ends the invocation at once, even below MAX_TOOL_ROUNDS: no further
\* model call, no further dispatch, and its text is what is returned.
C5_NoRequestEndsTheLoop ==
    \A k \in 2..Len(responses) :
        RequestsOf(responses[k]) = <<>> =>
            /\ Len(calls) = k
            /\ DispatchesFor(k) = <<>>
            /\ (pc = "done" /\ HasText(responses[k])) =>
                  outcome = "returned" /\ result = TextOf(responses[k])

----------------------------------------------------------------------------
(* C6 *)

\* the turns call k+1 received beyond those call k received
NewTurns(k) ==
    SubSeq(calls[k + 1].messages, Len(calls[k].messages) + 1,
           Len(calls[k + 1].messages))

\* C6: for every response that was processed (the next model call was issued)
\* and held N >= 1 tool-call blocks: exactly N dispatches were made for it, and
\* after its assistant turn exactly one user turn of N entries was appended,
\* whose i-th entry carries the i-th request's call id and the string the
\* dispatch made for that request returned.
C6_OneResultPerRequest ==
    \A k \in 1..(Len(calls) - 1) :
        LET reqs == RequestsOf(responses[k])
            made == DispatchesFor(k)
            new == NewTurns(k)
        IN  Len(reqs) >= 1 =>
                /\ Len(made) = Len(reqs)
                /\ Len(new) = 2
                /\ new[1].role = "assistant"
                /\ new[2].role = "user"
                /\ Len(new[2].content) = Len(reqs)
                /\ \A i \in 1..Len(reqs) :
                      /\ made[i].id = reqs[i].id
                      /\ ~made[i].raised
                      /\ new[2].content[i].type = "tool_result"
                      /\ new[2].content[i].tool_use_id = reqs[i].id
                      /\ new[2].content[i].content = made[i].out

C6_Witness ==
    /\ Len(calls) >= 2
    /\ Len(RequestsOf(responses[1])) = 2
    /\ Len(DispatchesFor(1)) = 2

----------------------------------------------------------------------------
(* C7 *)

\* a step that makes a dispatch
DispatchStep == Len(dispatches') > Len(dispatches)

\* a step that issues a model call
CallStep == Len(calls') > Len(calls)

\* C7: model calls and dispatches happen one at a time.  A dispatch is made for
\* the first tool-call block of the current response that has not been served
\* yet, after every earlier dispatch has returned and its result was collected;
\* a follow-up model call is issued only when every tool-call block of the
\* current response has been served, and it carries all their results in its
\* last turn.
C7_StrictlySequential ==
    [][ /\ ~(DispatchStep /\ CallStep)
        /\ DispatchStep =>
              LET k == Len(calls)
                  reqs == RequestsOf(responses[k])
                  made == DispatchesFor(k)
                  d == dispatches'[Len(dispatches')]
              IN  /\ Len(dispatches') = Len(dispatches) + 1
                  /\ Len(responses) = k
                  /\ d.after_call = k
                  /\ Len(made) < Len(reqs)
                  /\ d.id = reqs[Len(made) + 1].id
                  /\ Len(tool_results) = Len(made)
                  /\ \A j \in 1..Len(made) :
                        /\ ~made[j].raised
                        /\ made[j].id = reqs[j].id
                        /\ tool_results[j].content = made[j].out
        /\ (CallStep /\ Len(calls) >= 1) =>
              LET k == Len(calls)
                  reqs == RequestsOf(responses[k])
                  made == DispatchesFor(k)
                  sent == calls'[k + 1].messages
              IN  /\ Len(calls') = k + 1
                  /\ Len(responses) = k
                  /\ Len(made) = Len(reqs)
                  /\ \A j \in 1..Len(made) : ~made[j].raised
                  /\ Len(reqs) >= 1 =>
                        /\ Len(sent[Len(sent)].content) = Len(reqs)
                        /\ \A j \in 1..Len(reqs) :
                              sent[Len(sent)].content[j].content = made[j].out
      ]_vars

C7_Witness ==
    /\ Len(calls) = 3
    /\ Len(DispatchesFor(1)) = 2
    /\ Len(DispatchesFor(2)) = 2

----------------------------------------------------------------------------
(* C8 *)

\* _handle_tool_execution was entered and ran, without a fault, until the
\* round counter stood at MAX_TOOL_ROUNDS
RoundLimitReached ==
    /\ Finished
    /\ tool_manager
    /\ Len(responses) >= 1
    /\ responses[1].stop_reason = "tool_use"
    /\ tool_round = MAX_TOOL_ROUNDS

\* C8: once the round counter has reached MAX_TOOL_ROUNDS the invocation
\* returns the text of the most recent response and dispatches none of the
\* tool calls that response holds, also when its stop_reason is tool_use.
C8_TextReturnedAtTheLimit ==
    LET last == responses[Len(responses)]
    IN  (RoundLimitReached /\ Len(last.content) > 0) =>
            /\ outcome = "returned"
            /\ result = last.content[1].text
            /\ DispatchesFor(Len(calls)) = <<>>

----------------------------------------------------------------------------
(* C9 *)

\* C9: when tools were passed, the initial call carries them, the follow-up
\* call made after round r carries them when r < MAX_TOOL_ROUNDS and carries
\* neither tools nor tool_choice when r = MAX_TOOL_ROUNDS; with
\* MAX_TOOL_ROUNDS = 2 the first and second call carry tools, the third none.
C9_ToolsWithheldOnLastRound ==
    ToolsGiven(tools) =>
        \A k \in 1..Len(calls) :
            IF k - 1 < MAX_TOOL_ROUNDS \/ k = 1
            THEN calls[k].tools = tools /\ calls[k].tool_choice = "auto"
            ELSE /\ k - 1 = MAX_TOOL_ROUNDS
                 /\ calls[k].tools = Absent
                 /\ calls[k].tool_choice = None

C9_Witness ==
    /\ ToolsGiven(tools)
    /\ MAX_TOOL_ROUNDS = 2
    /\ Len(calls) = 3
    /\ ToolsAttached(calls[1])
    /\ ToolsAttached(calls[2])
    /\ ~ToolsAttached(calls[3])

----------------------------------------------------------------------------
(* C10 *)

\* C10: a dispatch that raises ends the invocation with that error: no text is
\* returned, the raising dispatch is the last one made (the later tool calls of
\* the same response are not served) and no model call follows it.
C10_ToolErrorPropagates ==
    \A i \in DOMAIN dispatches :
        dispatches[i].raised =>
            /\ pc = "done"
            /\ outcome = "raised"
            /\ error = "ToolError"
            /\ result = NoAttr
            /\ i = Len(dispatches)
            /\ Len(calls) = dispatches[i].after_call

\* the first of two tool calls of the second response raised
C10_Witness ==
    /\ Len(dispatches) >= 2
    /\ dispatches[Len(dispatches)].raised
    /\ dispatches[Len(dispatches)].after_call = 2
    /\ Len(RequestsOf(responses[2])) = 2
    /\ Len(DispatchesFor(2)) = 1

----------------------------------------------------------------------------
(* C11 *)

\* a model call was issued that has no response: it failed
ModelCallFailed == Len(calls) > Len(responses)

\* C11: a model call that fails, the initial one or a follow-up, ends the
\* invocation with that error and is not attempted again: no two model calls of
\* an invocation carry the same parameters, at most one call is without a
\* response, and that call is the last one issued, with no dispatch made after
\* it and no text returned.
C11_ModelCallFailurePropagates ==
    /\ Len(calls) <= Len(responses) + 1
    /\ \A i, j \in DOMAIN calls : i < j => calls[i] # calls[j]
    /\ error = "APIError" => ModelCallFailed
    /\ ModelCallFailed =>
          /\ pc = "done"
          /\ outcome = "raised"
          /\ error = "APIError"
          /\ result = NoAttr
          /\ \A i \in DOMAIN dispatches : dispatches[i].after_call < Len(calls)

\* the follow-up call made after two dispatches failed
C11_Witness ==
    /\ ModelCallFailed
    /\ Len(calls) = 2
    /\ Len(dispatches) = 2
    /\ outcome = "raised"

----------------------------------------------------------------------------
(* C14 *)

\* a history was passed: any string, the empty one included
HistorySupplied == conversation_history # None

\* C14: every model call of an invocation that was given a history (any string,
\* the empty string included) carries as system instruction the fixed
\* instruction followed by the "Previous conversation" heading and the history;
\* every model call of an invocation given no history carries the fixed
\* instruction alone.
C14_HistoryUnderHeading ==
    \A k \in DOMAIN calls :
        calls[k].system =
            IF HistorySupplied
            THEN <<SYSTEM_PROMPT, "Previous conversation:", conversation_history>>
            ELSE <<SYSTEM_PROMPT>>

----------------------------------------------------------------------------
(* C12 *)

\* the strings with which a tool or the manager reports a failure
SoftFailure(out) ==
    /\ Len(out) > 0
    /\ out[1] \in {"No relevant content found.", "No course found matching",
                   "Tool not found", SearchError.error}

\* the tool_result entries the model call after call k received
ResultsSentAfter(k) ==
    LET sent == calls[k + 1].messages IN sent[Len(sent)].content

\* the dispatch is answered in the call after k by an entry with its call id
\* and, unchanged, the string it returned
FedBack(d) ==
    \E j \in DOMAIN ResultsSentAfter(d.after_call) :
        /\ ResultsSentAfter(d.after_call)[j].type = "tool_result"
        /\ ResultsSentAfter(d.after_call)[j].tool_use_id = d.id
        /\ ResultsSentAfter(d.after_call)[j].content = d.out

\* C12: a dispatch that returns a failure string (nothing found, no such
\* course, no such tool, an error string of the store) is no fault: nothing is
\* raised for it, its string is collected unchanged as the content of the
\* tool_result entry carrying its call id, the for loop goes on, and the model
\* call that follows the round carries that entry.
C12_SoftFailureIsAResult ==
    \A i \in DOMAIN dispatches :
        LET d == dispatches[i]
        IN  (~d.raised /\ SoftFailure(d.out)) =>
                /\ error = "ToolError" => i < Len(dispatches)
                /\ (i = Len(dispatches) /\ Len(calls) = d.after_call) =>
                      /\ pc = "tools"
                      /\ outcome = "running"
                      /\ tool_results[Len(tool_results)] =
                             [type |-> "tool_result", tool_use_id |-> d.id,
                              content |-> d.out]
                /\ Len(calls) > d.after_call => FedBack(d)

\* a search that matched nothing and a search the store answered with an error
\* were both fed back to the model, and the invocation returned a text
C12_Witness ==
    /\ \E i \in DOMAIN dispatches :
          /\ ~dispatches[i].raised
          /\ dispatches[i].out[1] = "No relevant content found."
          /\ Len(calls) > dispatches[i].after_call
    /\ \E i \in DOMAIN dispatches :
          /\ dispatches[i].out = <<SearchError.error>>
          /\ Len(calls) > dispatches[i].after_call
    /\ outcome = "returned"

----------------------------------------------------------------------------
(* C13 *)

\* the executions of source-tracking tools, in the order they were served
TrackedExecutions == SelectSeq(executions, LAMBDA e : e.tracked)

\* generate_response is running or has just ended: the caller has not read
\* the citations yet
InGenerateResponse == pc \in {"initial_call", "loop", "tools", "done"}

\* C13: while generate_response runs and when it ends, the citations the
\* manager's tools hold are exactly those the most recent execution of a
\* source-tracking tool left; generate_response neither reads nor resets them.
C13_CitationsLeftInPlace ==
    InGenerateResponse =>
        /\ sources = <<>>
        /\ TrackedExecutions # <<>> =>
              last_sources = TrackedExecutions[Len(TrackedExecutions)].last_sources
        /\ TrackedExecutions = <<>> =>
              last_sources = [t \in SourceTracking |-> <<>>]

\* generate_response returned after a search of this invocation that matched
\* chunks, and the citations are still held
C13_Witness ==
    /\ pc = "done"
    /\ outcome = "returned"
    /\ Len(executions) >= 2
    /\ executions[Len(executions)].tracked
    /\ get_last_sources(manager_tools, last_sources) # <<>>

----------------------------------------------------------------------------
(* C15 *)

\* C15: a dispatch of a tool name that is not registered does not raise: the
\* manager returns a string saying the tool was not found and changes no
\* citation, and the model call after the round carries that string as the
\* result of the call, like any other result.
C15_UnknownToolIsAResult ==
    /\ \A i \in DOMAIN dispatches :
          LET d == dispatches[i]
          IN  ~Registered(manager_tools, d.name) =>
                  /\ ~d.raised
                  /\ d.out = <<"Tool not found", d.name>>
                  /\ Len(calls) > d.after_call => FedBack(d)
    /\ \A n \in DOMAIN executions :
          (n > 1 /\ ~Registered(manager_tools, executions[n].name)) =>
              executions[n].last_sources = executions[n - 1].last_sources

\* the outline tool, which is not registered, was asked for, and the model
\* received the answer
C15_Witness ==
    \E i \in DOMAIN dispatches :
        /\ ~Registered(manager_tools, dispatches[i].name)
        /\ Len(calls) > dispatches[i].after_call
        /\ Len(executions) > 1

----------------------------------------------------------------------------
(* C16 *)

\* a step in which the manager served an execution of a source-tracking tool
TrackedExecutionStep ==
    /\ Len(executions') = Len(executions) + 1
    /\ executions'[Len(executions')].tracked

\* the number of chunks the string of a search execution presents
MatchesOf(out) == IF out[1] = "formatted" THEN Len(out[2]) ELSE 0

\* C16: whatever the search tool held before, after an execution of it the
\* tool holds exactly the citations of that execution, one per matched chunk:
\* after K matches get_last_sources returns K entries, after an execution that
\* matched nothing it returns none.
C16_CitationsOverwritten ==
    [][ TrackedExecutionStep =>
          LET e == executions'[Len(executions')]
              held == last_sources'[CourseSearchTool]
          IN  /\ Len(held) = MatchesOf(e.out)
              /\ \A j \in DOMAIN held : held[j] = Source(e.out[2][j])
              /\ get_last_sources(manager_tools', last_sources') = held
      ]_vars

\* a search matched MaxMatches chunks and get_last_sources returned their
\* citations; a later search matched nothing and no citation is held
C16_Witness ==
    /\ Len(executions) >= 2
    /\ executions[1].answer = "match"
    /\ Len(sources) = MaxMatches
    /\ executions[Len(executions)].answer = "no match"
    /\ get_last_sources(manager_tools, last_sources) = <<>>

----------------------------------------------------------------------------
(* C17 *)

\* no registered tool holds a citation
NoCitationHeld(reg, ls) ==
    \A i \in DOMAIN reg : reg[i] \in DOMAIN ls => ls[reg[i]] = <<>>

\* C17: reset_sources leaves every registered tool without citations, so that
\* get_last_sources returns the empty list right after it; resetting once more
\* changes nothing, and resetting when no citation is held changes nothing.
C17_ResetIsIdempotent ==
    /\ [](LET once == reset_sources(manager_tools, last_sources)
          IN  /\ NoCitationHeld(manager_tools, once)
              /\ get_last_sources(manager_tools, once) = <<>>
              /\ reset_sources(manager_tools, once) = once
              /\ NoCitationHeld(manager_tools, last_sources) => once = last_sources)
    /\ [][ ResetSources =>
              /\ NoCitationHeld(manager_tools', last_sources')
              /\ get_last_sources(manager_tools', last_sources') = <<>>
              /\ reset_sources(manager_tools', last_sources') = last_sources'
          ]_vars

\* the search tool, registered after the outline tool, executed with matches
\* whose citations were read, and holds nothing any more: they were reset
C17_Witness ==
    /\ manager_tools = <<CourseOutlineTool, CourseSearchTool>>
    /\ Len(executions) >= 1
    /\ executions[Len(executions)].answer = "match"
    /\ sources # <<>>
    /\ NoCitationHeld(manager_tools, last_sources)

----------------------------------------------------------------------------
(* C18 *)

\* C18: no execution of the search tool or of the outline tool raises.  A
\* search that matches nothing returns "No relevant content found." with the
\* description of its filter and leaves the tool without citations; an outline
\* lookup that resolves no course returns the not-found message naming its
\* input; an error of the store is returned as the string of the result.
C18_ToolsReportFailuresAsStrings ==
    \A n \in DOMAIN executions :
        LET e == executions[n]
        IN  /\ ~e.raised
            /\ e.answer = "no match" =>
                  /\ e.out = <<"No relevant content found.", e.input>>
                  /\ e.last_sources[CourseSearchTool] = <<>>
            /\ e.answer = "no outline" =>
                  e.out = <<"No course found matching", e.input>>
            /\ e.answer = "error" => e.out = <<SearchError.error>>

\* a search that matched was followed by one that matched nothing, by an
\* outline lookup without a course and by a search the store failed
C18_Witness ==
    /\ Len(executions) >= 3
    /\ \E n \in DOMAIN executions :
          n > 1 /\ executions[n - 1].answer = "match" /\ executions[n].answer = "no match"
    /\ \E n \in DOMAIN executions : executions[n].answer = "no outline"
    /\ \E n \in DOMAIN executions : executions[n].answer = "error"

----------------------------------------------------------------------------
(* C19 *)

\* the dispatches of frame f that returned while it processed response k
ReturnedFor(f, k) ==
    SelectSeq(f.dispatches, LAMBDA d : d.after_call = k /\ ~d.raised)

\* the tool_result entries for these dispatches
ResultsOf(made) ==
    [i \in DOMAIN made |->
        [type |-> "tool_result", tool_use_id |-> made[i].id, content |-> made[i].out]]

\* call k of frame f, which belongs to query r, carries base_params and the
\* transcript of r alone: the query of r first; from call 2 on, what the call
\* before carried, the response of r to that call as assistant turn, and the
\* results of the dispatches r made for it
OwnCall(f, r, k) ==
    LET sent == f.calls[k].messages
    IN  /\ f.calls[k].model = base_params.model
        /\ f.calls[k].temperature = base_params.temperature
        /\ f.calls[k].max_tokens = base_params.max_tokens
        /\ Len(sent) >= 1
        /\ sent[1] = UserQueryTurn(QueryOf(r))
        /\ IF k = 1
           THEN Len(sent) = 1
           ELSE LET prev == f.calls[k - 1].messages
                    made == ReturnedFor(f, k - 1)
                IN  /\ Len(sent) = Len(prev) + 1 + (IF made = <<>> THEN 0 ELSE 1)
                    /\ SubSeq(sent, 1, Len(prev)) = prev
                    /\ sent[Len(prev) + 1] = AssistantTurn(f.responses[k - 1])
                    /\ made # <<>> =>
                          /\ sent[Len(sent)].role = "user"
                          /\ sent[Len(sent)].content = ResultsOf(made)

\* everything frame f holds is of query r: its responses are the model's
\* answers to the calls of r, its dispatches were served as executions for r,
\* and each of its calls carries its own transcript
OwnTranscript(f, r) ==
    /\ \A k \in DOMAIN f.responses : f.responses[k] \in ModelAnswers(CallNumber(r, k))
    /\ \A i \in DOMAIN f.dispatches :
          ~f.dispatches[i].raised =>
              \E n \in DOMAIN executions :
                  /\ executions[n].by = r
                  /\ executions[n].id = f.dispatches[i].id
                  /\ executions[n].out = f.dispatches[i].out
    /\ \A k \in DOMAIN f.calls : OwnCall(f, r, k)

\* C19: with two queries running at once on one generator, under every
\* interleaving of their steps, each model call of a query carries the
\* generator's base parameters and a transcript made of that query's own
\* question, its own assistant tool-call turns and the results of its own
\* tool calls, and of nothing else.
C19_IndependentTranscripts ==
    /\ OwnTranscript(Invocation, running)
    /\ OwnTranscript(parked, 3 - running)

\* both queries have made their follow-up call, each after a tool call that
\* was served while the other query was between its two calls
C19_Witness ==
    /\ Len(calls) = 2
    /\ Len(parked.calls) = 2
    /\ Len(executions) = 2
    /\ executions[1].by # executions[2].by
    /\ Len(calls[2].messages) = 3
    /\ Len(parked.calls[2].messages) = 3

----------------------------------------------------------------------------
(* C20 *)

\* the step in which the caller of the running query reads the citations
ReadStep == running' = running /\ pc = "done" /\ pc' = "sources_read"

\* C20: the citations are kept in one place for both queries.  What a caller
\* reads after its generate_response has returned is what the search tool
\* holds at that moment: the citations of the most recent search, whichever
\* query made it, or nothing when they were reset since, by whichever caller.
\* With two queries at once a caller can therefore read the citations of the
\* other query.
C20_CitationsSharedByQueries ==
    [][ ReadStep =>
          LET searches == TrackedExecutions
          IN  /\ sources' = last_sources[CourseSearchTool]
              /\ \/ sources' = <<>>
                 \/ /\ searches # <<>>
                    /\ sources' =
                          searches[Len(searches)].last_sources[CourseSearchTool]
      ]_vars

\* a caller has read citations although its own search left other ones: they
\* are those of a search the other query made in between
C20_Witness ==
    /\ pc = "sources_read"
    /\ sources # <<>>
    /\ \E n \in DOMAIN executions :
          /\ executions[n].by = running
          /\ executions[n].answer = "match"
          /\ executions[n].last_sources[CourseSearchTool] # sources
    /\ \E n \in DOMAIN executions :
          /\ executions[n].by # running
          /\ executions[n].last_sources[CourseSearchTool] = sources
    /\ \A n \in DOMAIN executions :
          executions[n].by = running =>
              executions[n].last_sources[CourseSearchTool] # sources


----------------------------------------------------------------------------
(* C21 *)

\* the citation was derived by a search the manager executed for query r
ProducedBy(c, r) ==
    \E n \in DOMAIN executions :
        /\ executions[n].tracked
        /\ executions[n].by = r
        /\ \E j \in DOMAIN executions[n].last_sources[CourseSearchTool] :
              executions[n].last_sources[CourseSearchTool][j] = c

\* the running query has read the citations it returns
SourcesRead == pc \in {"sources_read", "query_done"}

\* C21: when a query has returned, no registered tool holds a citation; and in
\* a series of queries, none of the citations a query returns was produced by
\* a search made for an earlier query of the series.
C21_NoCitationsOfEarlierQueries ==
    /\ pc = "query_done" => NoCitationHeld(manager_tools, last_sources)
    /\ SourcesRead =>
          \A j \in DOMAIN sources :
              \A r \in 1..(running - 1) : ~ProducedBy(sources[j], r)

----------------------------------------------------------------------------
(* C22 *)

\* generate_response has ended: it returned a text, or it raised
Terminated == pc = "done" /\ outcome \in {"returned", "raised"}

\* C22: whatever the model answers and whatever MAX_TOOL_ROUNDS is, an
\* invocation in which every model call and every dispatch comes to an end
\* ends itself: it returns a text or it raises.
C22_Terminates == (outcome = "running") ~> Terminated

\* an invocation that went through MaxRounds rounds, in the last of which the
\* for loop passed over a block and executed a tool, has returned
C22_Witness ==
    /\ Terminated
    /\ outcome = "returned"
    /\ MAX_TOOL_ROUNDS = MaxRounds
    /\ tool_round = MaxRounds
    /\ Len(responses) = MaxRounds + 1
    /\ Len(responses[MaxRounds].content) = MaxBlocks
    /\ Len(DispatchesFor(MaxRounds)) = 1

----------------------------------------------------------------------------
(* C23 *)

\* _handle_tool_execution was entered
LoopEntered ==
    Len(responses) >= 1 /\ NeedsToolExecution(responses[1], tool_manager)

\* _handle_tool_execution has just been entered: the while loop starts
LoopStarts == pc = "loop" /\ Len(calls) = 1

\* a return statement of _handle_tool_execution was reached
ReturnedFromLoop == pc = "done" /\ LoopEntered /\ ~Faulted

\* the rounds in which tools were executed and a follow-up model call was made
CompletedRounds ==
    Cardinality({k \in 1..(Len(calls) - 1) : DispatchesFor(k) # <<>>})

\* the follow-up model calls made
FollowUpCalls == Len(calls) - 1

ReturnInsideLoop ==
    /\ pc = "loop"
    /\ pc' = "done"
    /\ LoopContinues(tool_round, MAX_TOOL_ROUNDS)

\* the step is the return that follows the while loop (line 183)
ReturnAfterLoop ==
    /\ pc = "loop"
    /\ pc' = "done"
    /\ ~LoopContinues(tool_round, MAX_TOOL_ROUNDS)

----------------------------------------------------------------------------
(* C24 *)

\* the role a turn at place i has when user and assistant turns alternate,
\* the first turn being the user's
RoleAt(i) == IF i % 2 = 1 THEN "user" ELSE "assistant"

\* a user turn that carries tool_result entries
IsToolResultTurn(turn) ==
    /\ turn.role = "user"
    /\ Len(turn.content) > 0
    /\ \A j \in DOMAIN turn.content : turn.content[j].type = "tool_result"

\* msgs begins with the turns of earlier, in their order
Extends(msgs, earlier) ==
    /\ Len(msgs) >= Len(earlier)
    /\ SubSeq(msgs, 1, Len(earlier)) = earlier

\* C24: the model call made after k rounds of the loop (k >= 1) receives
\* exactly 1 + 2k turns: the user query first, user and assistant turns
\* alternating, a user turn of tool results last, and the turns the call before
\* it received unchanged at the front; this for every response with
\* stop_reason tool_use, whatever blocks it holds.
C24_TranscriptAlternates ==
    \A k \in 1..(Len(calls) - 1) :
        LET msgs == calls[k + 1].messages
        IN  /\ Len(msgs) = 1 + 2 * k
            /\ msgs[1] = UserQueryTurn(query)
            /\ \A i \in DOMAIN msgs : msgs[i].role = RoleAt(i)
            /\ IsToolResultTurn(msgs[Len(msgs)])
            /\ Extends(msgs, calls[k].messages)

----------------------------------------------------------------------------
(* C25 *)

\* generate_response has been called and its arguments are bound
Invoked == pc # "idle"

\* C25: in every invocation, the first or a later one on the same generator,
\* the parameters of the initial call stay what generate_response built from
\* its arguments: their message list holds the one user turn of the query
\* while the tool loop runs and when the invocation has ended, the first model
\* call carried exactly that one turn, and no step of the invocation changes
\* the query, the history or the tool list it was given.
C25_InitialInputsLeftAlone ==
    /\ [](Invoked =>
            /\ api_params = InitialParams(query, conversation_history, tools)
            /\ api_params.messages = <<UserQueryTurn(QueryOf(running))>>
            /\ Len(calls) >= 1 =>
                  calls[1].messages = <<UserQueryTurn(QueryOf(running))>>)
    /\ [][ (Invoked /\ pc' # "idle") =>
               UNCHANGED <<query, conversation_history, tools, api_params>> ]_vars

\* the second invocation on the generator, given a history and tools, has
\* ended after a round of tools: its transcript grew to three turns, and the
\* list of its initial call still holds one
C25_Witness ==
    /\ running = 2
    /\ pc = "done"
    /\ outcome = "returned"
    /\ HistoryGiven(conversation_history)
    /\ ToolsGiven(tools)
    /\ Len(messages) = 3
    /\ Len(api_params.messages) = 1

----------------------------------------------------------------------------
(* C26 *)

\* the sampling parameters and the system instruction of a model call
FixedPart(params) ==
    [model |-> params.model, temperature |-> params.temperature,
     max_tokens |-> params.max_tokens, system |-> params.system]

\* C26: every model call of an invocation, the initial one and the follow-ups,
\* carries the generator's model id, temperature 0, max_tokens 800 and the
\* system instruction built when generate_response was entered, which holds
\* the history when one was given; the calls differ only in their messages and
\* in whether tools and tool_choice are attached.
C26_SameFixedParameters ==
    \A k \in DOMAIN calls :
        /\ calls[k].model = "model"
        /\ calls[k].temperature = 0
        /\ calls[k].max_tokens = 800
        /\ calls[k].system = SystemContent(conversation_history)
        /\ HistoryGiven(conversation_history) =>
              calls[k].system[Len(calls[k].system)] = conversation_history
        /\ FixedPart(calls[k]) = FixedPart(calls[1])

\* three calls were made for a query with a history: the first two with tools,
\* the last without, each with a longer transcript
C26_Witness ==
    /\ Len(calls) = 3
    /\ HistoryGiven(conversation_history)
    /\ ToolsAttached(calls[2])
    /\ ~ToolsAttached(calls[3])
    /\ Len(calls[2].messages) < Len(calls[3].messages)
    /\ FixedPart(calls[3]).system # <<SYSTEM_PROMPT>>

----------------------------------------------------------------------------
(* C27 *)

\* the caller passed a list that holds at least one tool definition
NonEmptyToolList(t) == t # NoneList /\ Len(t) > 0

\* C27: the initial model call carries tools and tool_choice "auto" exactly
\* when a non-empty tool list was passed, and the tools it carries are then the
\* list passed; when None or an empty list was passed the request holds
\* neither a tools key nor a tool_choice key.
C27_InitialCallTools ==
    Len(calls) >= 1 =>
        IF NonEmptyToolList(tools)
        THEN calls[1].tools = tools /\ calls[1].tool_choice = "auto"
        ELSE calls[1].tools = Absent /\ calls[1].tool_choice = None

\* the initial call was made with the two definitions passed and the model's
\* answer to it was returned
C27_Witness ==
    /\ Len(calls) = 1
    /\ outcome = "returned"
    /\ NonEmptyToolList(tools)
    /\ calls[1].tools = <<"search_course_content", "get_course_outline">>
    /\ calls[1].tool_choice = "auto"

----------------------------------------------------------------------------
(* C28 *)

\* C28: in every model call of an invocation, tool_choice "auto" is present
\* only together with a non-empty tool list, the one the caller passed; and
\* when the caller passed no tools but a tool manager, no follow-up call
\* carries tools or tool_choice.
C28_AutoOnlyWithCallersTools ==
    /\ \A k \in DOMAIN calls :
          calls[k].tool_choice = "auto" =>
              /\ NonEmptyToolList(tools)
              /\ calls[k].tools = tools
    /\ (~NonEmptyToolList(tools) /\ tool_manager) =>
          \A k \in 2..Len(calls) :
              calls[k].tools = Absent /\ calls[k].tool_choice = None

----------------------------------------------------------------------------
(* C29 *)

\* the first response has stop_reason tool_use and no manager was passed
ToolUseWithoutManager ==
    /\ Len(responses) >= 1
    /\ responses[1].stop_reason = "tool_use"
    /\ ~tool_manager

\* C29: when the first response has stop_reason tool_use and no tool manager
\* was passed, no tool is dispatched, no further model call is made, and the
\* text of the first content block of that response is returned.
C29_NoManagerReturnsFirstText ==
    ToolUseWithoutManager =>
        /\ Len(dispatches) = 0
        /\ Len(calls) = 1
        /\ Len(responses[1].content) > 0 =>
              /\ outcome = "returned"
              /\ result = responses[1].content[1].text

----------------------------------------------------------------------------
(* C30 *)

\* MAX_TOOL_ROUNDS is 0 and the first response asks for tools
ImmediateLimit ==
    /\ MAX_TOOL_ROUNDS = 0
    /\ Len(responses) >= 1
    /\ responses[1].stop_reason = "tool_use"
    /\ RequestsOf(responses[1]) # <<>>

\* C30: with MAX_TOOL_ROUNDS = 0 and a first response that asks for tools,
\* generate_response returns the text of that response, makes no further
\* model call and dispatches no tool, and the one model call it made carried
\* neither tools nor tool_choice.
C30_ImmediateLimit ==
    ImmediateLimit =>
        /\ Len(calls) = 1
        /\ Len(dispatches) = 0
        /\ pc = "done" =>
              /\ outcome = "returned"
              /\ result = responses[1].content[1].text
        /\ calls[1].tools = Absent
        /\ calls[1].tool_choice = None

----------------------------------------------------------------------------
(* C31 *)

\* the response to call k was put into the transcript of the call after it
KeptInTranscript(k) ==
    \E i \in DOMAIN calls[k + 1].messages :
        /\ calls[k + 1].messages[i].role = "assistant"
        /\ calls[k + 1].messages[i].content = responses[k].content

\* C31: when generate_response has returned a text, every model call made has
\* a response, the text is that of the response to the last call, every
\* earlier response is in the transcript of the call that followed it, and
\* every dispatch made returned and its result was sent to the model in the
\* call that followed its round.
C31_NothingDiscarded ==
    outcome = "returned" =>
        /\ Len(calls) = Len(responses)
        /\ HasText(responses[Len(responses)])
        /\ result = TextOf(responses[Len(responses)])
        /\ \A k \in 1..(Len(responses) - 1) : KeptInTranscript(k)
        /\ \A i \in DOMAIN dispatches :
              /\ ~dispatches[i].raised
              /\ Len(calls) > dispatches[i].after_call
              /\ FedBack(dispatches[i])

\* a text was returned after three model calls and two rounds of two
\* dispatches each
C31_Witness ==
    /\ outcome = "returned"
    /\ Len(responses) = 3
    /\ Len(dispatches) = 4
    /\ result = TextOf(responses[3])
    /\ result # TextOf(responses[1])

----------------------------------------------------------------------------
(* C32 *)

\* the smaller of two lengths
Shorter(a, b) == IF Len(a) <= Len(b) THEN Len(a) ELSE Len(b)

\* the second invocation was given the arguments of the first
SameArguments ==
    /\ running = 2
    /\ Invoked
    /\ query = parked.query
    /\ conversation_history = parked.conversation_history
    /\ tools = parked.tools

\* as far as both invocations went, the model gave them the same responses and
\* the manager the same outcome of every dispatch
SameAnswers ==
    /\ \A k \in 1..Shorter(responses, parked.responses) :
          responses[k] = parked.responses[k]
    /\ \A i \in 1..Shorter(dispatches, parked.dispatches) :
          /\ dispatches[i].raised = parked.dispatches[i].raised
          /\ dispatches[i].out = parked.dispatches[i].out

\* both invocations have ended, and the second received all that the first
\* received: the same responses, the same outcomes of dispatches, and a failed
\* model call if the first met one
SameRun ==
    /\ pc = "done"
    /\ SameAnswers
    /\ Len(responses) = Len(parked.responses)
    /\ Len(dispatches) = Len(parked.dispatches)
    /\ (error = "APIError") = (parked.error = "APIError")

\* the second invocation has received less than the first
ReceivedLess ==
    \/ Len(responses) < Len(parked.responses)
    \/ Len(dispatches) < Len(parked.dispatches)

\* C32: of two invocations on one generator with the same query, history, tool
\* list and MAX_TOOL_ROUNDS that receive the same responses and tool outputs,
\* the second issues the model calls and makes the dispatches of the first,
\* in the same order and with the same parameters, and having received all
\* the first received it ends as the first did, with the same text; given the
\* same manager as well, it does not return where the first went on.
C32_Deterministic ==
    (SameArguments /\ SameAnswers) =>
        /\ \A k \in 1..Shorter(calls, parked.calls) : calls[k] = parked.calls[k]
        /\ \A i \in 1..Shorter(dispatches, parked.dispatches) :
              dispatches[i] = parked.dispatches[i]
        /\ (tool_manager = parked.tool_manager /\ ReceivedLess) => ~Finished
        /\ SameRun =>
              /\ calls = parked.calls
              /\ dispatches = parked.dispatches
              /\ outcome = parked.outcome
              /\ result = parked.result
              /\ error = parked.error

\* the second invocation, after a first one that ran a round of tools, was
\* given the same arguments and answers and returned the same text
C32_Witness ==
    /\ SameArguments
    /\ SameRun
    /\ pc = "done"
    /\ outcome = "returned"
    /\ Len(calls) >= 2
    /\ Len(dispatches) >= 1
    /\ ToolsGiven(tools)
    /\ result = parked.result

----------------------------------------------------------------------------
(* C33 *)

\* the names given to register_tool so far
NamesRegistered == {registrations[k].name : k \in DOMAIN registrations}

\* the first and the last call of register_tool that gave a tool of that name
FirstRegistration(name) ==
    CHOOSE k \in DOMAIN registrations :
        /\ registrations[k].name = name
        /\ \A l \in 1..(k - 1) : registrations[l].name # name

LastRegistration(name) ==
    CHOOSE k \in DOMAIN registrations :
        /\ registrations[k].name = name
        /\ \A l \in (k + 1)..Len(registrations) : registrations[l].name # name

\* C33: after any sequence of registrations the manager keeps, under every
\* name registered, the tool object given by the last registration of that
\* name, and nothing under other names; get_tool_definitions returns one
\* definition for every name registered, none twice, in the order in which
\* the names were first registered.
C33_LastRegistrationWins ==
    LET defs == get_tool_definitions(manager_tools)
    IN  /\ \A t \in ToolNames :
              tool_instances[t] =
                  IF t \in NamesRegistered
                  THEN registrations[LastRegistration(t)].instance
                  ELSE NoInstance
        /\ {defs[i] : i \in DOMAIN defs} = NamesRegistered
        /\ \A i, j \in DOMAIN defs : defs[i] = defs[j] => i = j
        /\ \A i, j \in DOMAIN defs :
              i < j => FirstRegistration(defs[i]) < FirstRegistration(defs[j])

\* the search tool, then the outline tool, then another search tool object
\* were registered: two definitions, the search tool's first, and the manager
\* keeps the second search tool object
C33_Witness ==
    /\ Len(registrations) = 3
    /\ registrations[1] = Registration(CourseSearchTool, FirstInstance)
    /\ registrations[2].name = CourseOutlineTool
    /\ registrations[3] = Registration(CourseSearchTool, FirstInstance + 1)
    /\ get_tool_definitions(manager_tools) = <<CourseSearchTool, CourseOutlineTool>>
    /\ tool_instances[CourseSearchTool] = FirstInstance + 1

----------------------------------------------------------------------------
(* C34 *)

\* the tool registered in place i keeps citations and holds some
HoldsCitations(i) ==
    /\ manager_tools[i] \in DOMAIN last_sources
    /\ last_sources[manager_tools[i]] # <<>>

\* `list` is what the first tool, in registration order, that holds citations
\* holds, or empty when no registered tool holds any
ListOfFirstHolder(list) ==
    /\ (\A i \in DOMAIN manager_tools : ~HoldsCitations(i)) => list = <<>>
    /\ \A i \in DOMAIN manager_tools :
          (HoldsCitations(i) /\ \A j \in 1..(i - 1) : ~HoldsCitations(j)) =>
              list = last_sources[manager_tools[i]]

\* C34: get_last_sources returns the list of the first tool, in registration
\* order, whose list is not empty, and the empty list when no registered tool
\* holds citations; it changes the list of no tool, so that calling it again
\* returns the same list.
C34_FirstHolderDrained ==
    /\ [](ListOfFirstHolder(get_last_sources(manager_tools, last_sources)))
    /\ [][ GetLastSources =>
              /\ ListOfFirstHolder(sources')
              /\ last_sources' = last_sources
              /\ get_last_sources(manager_tools', last_sources') = sources'
          ]_vars

\* the outline tool was registered before the search tool, both hold
\* citations, and get_last_sources returned those of the outline tool
C34_Witness ==
    /\ manager_tools = <<CourseOutlineTool, CourseSearchTool>>
    /\ DOMAIN last_sources = ToolNames
    /\ last_sources[CourseOutlineTool] # <<>>
    /\ last_sources[CourseSearchTool] # <<>>
    /\ sources = last_sources[CourseOutlineTool]
    /\ sources # last_sources[CourseSearchTool]


=============================================================================
